---- MODULE Spec2Model ----
(***************************************************************************)
(* Model of the /api/analyze handler of app.py (analyze_file): one request *)
(* walks the handler's stages in program order; every stage either hands   *)
(* on to the next one or produces the response and ends the request.       *)
(*                                                                         *)
(* Representation:                                                         *)
(*  - a string is a sequence of lexical units: a word ("Jan"), one blank   *)
(*    (" ") or one comma (",").  "" is <<>>, "Jan, Feb" is                 *)
(*    <<"Jan", ",", " ", "Feb">>;                                          *)
(*  - a percentage is kept in tenths (333 is 33.3), a 2-decimal figure in  *)
(*    hundredths;                                                          *)
(*  - a Date cell of the decoded sheet is a date [k |-> "date", m, d], a   *)
(*    blank cell, a text that is no date, or a boolean.                    *)
(***************************************************************************)
EXTENDS Integers, Sequences, FiniteSets, TLC

VARIABLES
    pc,           \* the stage the handler is about to run, "done" after the return
    request,      \* request.files and request.form of the request being served
    df,           \* the DataFrame read from the upload (NoFrame before the decode)
    recent_data,  \* the rows kept by the month filter
    response,     \* the (body, status) returned, NoResponse until the return
    stagesRun,    \* the stages executed so far, in order
    responses     \* number of return statements executed for this request

vars == <<pc, request, df, recent_data, response, stagesRun, responses>>

-----------------------------------------------------------------------------
(* Bounds of the model *)

MaxRows == 3          \* rows of a table drawn from RowPool
MaxProducts == 6      \* distinct products of a one-row-per-product table

-----------------------------------------------------------------------------
(* Constants of the program *)

required_columns == <<"Date", "Sales", "Revenue", "Product">>

bar_colors == <<"#3B82F6", "#10B981", "#F59E0B", "#EF4444", "#8B5CF6", "#EC4899",
                "#06B6D4", "#D97706", "#6366F1", "#F472B6", "#14B8A6", "#F43F5E">>

colors == <<"#3B82F6", "#10B981", "#F59E0B", "#EF4444", "#8B5CF6">>

HeadSize == 5

DefaultMonths == <<"Jan">>

\* strftime('%b'): the abbreviation of month m
MonthAbbr == <<"Jan", "Feb", "Mar", "Apr", "May", "Jun",
               "Jul", "Aug", "Sep", "Oct", "Nov", "Dec">>

\* groupby sorts its keys: the month abbreviations in string order
SortedMonthKeys == <<"Apr", "Aug", "Dec", "Feb", "Jan", "Jul",
                     "Jun", "Mar", "May", "Nov", "Oct", "Sep">>

\* product labels in string order (the order groupby('Product') lists them)
SortedProductKeys == <<"A", "B", "C", "D", "E", "F", "G", "H">>

-----------------------------------------------------------------------------
(* Strings *)

RECURSIVE split(_, _)
\* str.split(sep): the pieces between the separators, empty pieces included
split(s, sep) ==
    IF \E i \in 1..Len(s) : s[i] = sep
    THEN LET i == CHOOSE k \in 1..Len(s) : s[k] = sep /\ \A j \in 1..(k-1) : s[j] # sep
         IN  <<SubSeq(s, 1, i-1)>> \o split(SubSeq(s, i+1, Len(s)), sep)
    ELSE <<s>>

RECURSIVE lstrip(_)
lstrip(s) == IF s # <<>> /\ Head(s) = " " THEN lstrip(Tail(s)) ELSE s

RECURSIVE rstrip(_)
rstrip(s) == IF s # <<>> /\ s[Len(s)] = " " THEN rstrip(SubSeq(s, 1, Len(s)-1)) ELSE s

\* str.strip(): leading and trailing blanks removed
strip(s) == rstrip(lstrip(s))

RECURSIVE join(_, _)
\* sep.join(names)
join(names, sep) ==
    IF names = <<>> THEN <<>>
    ELSE IF Len(names) = 1 THEN <<names[1]>>
    ELSE <<names[1], sep>> \o join(Tail(names), sep)

\* filename.endswith(('.xlsx', '.xls')), case-sensitive
endswith_excel(filename) ==
    filename # <<>> /\ filename[Len(filename)] \in {".xlsx", ".xls"}

-----------------------------------------------------------------------------
(* Numbers *)

\* a/b rounded to the nearest integer, an exact tie going to the even neighbour
\* (round() and the 'f' format both round the binary value half-to-even; every
\* tie within the bounds below is a multiple of 1/16 and so exact in binary)
RoundHalfEven(a, b) ==
    LET q == a \div b
        r == a % b
    IN  IF 2 * r < b THEN q
        ELSE IF 2 * r > b THEN q + 1
        ELSE IF q % 2 = 0 THEN q ELSE q + 1

round1_up(part, total) == (part * 1000 + total - 1) \div total

\* round(part / total * 100, 1), in tenths
round1(part, total) == RoundHalfEven(part * 1000, total)

RECURSIVE SumSeq(_)
SumSeq(s) == IF s = <<>> THEN 0 ELSE Head(s) + SumSeq(Tail(s))

Range(s) == {s[i] : i \in 1..Len(s)}

-----------------------------------------------------------------------------
(* The inputs a request is drawn from *)

NoFile == <<"<no file part>">>

\* request.files['file'].filename, when the part is there
Filenames == {<<>>, <<"sales", ".xlsx">>, <<"sales", ".xls">>, <<"sales", ".csv">>}

\* request.form['specificMonths'], when the field is there
MonthStrings ==
    { <<>>,                               \* ""
      <<"Jan">>, <<"Feb">>, <<"Dec">>,
      <<"Jan", ",", "Feb">>,
      <<"Feb", ",", " ", "Mar", " ">>,    \* "Feb, Mar "
      <<"Feb", ",", "Foo">>,              \* a month of the data and an unknown word
      <<"Foo", ",", "jan">>,              \* unknown words only
      <<" ">> }

Forms ==
    {[productFilter |-> <<"all">>]} \cup
    {[productFilter |-> <<"all">>, specificMonths |-> s] : s \in MonthStrings}

Requests == [files : {NoFile} \cup Filenames, form : Forms]

DateCell(m, d) == [k |-> "date", m |-> m, d |-> d]
BlankCell == [k |-> "blank", m |-> 0, d |-> 0]
TextCell == [k |-> "text", m |-> 0, d |-> 0]
BoolCell == [k |-> "bool", m |-> 0, d |-> 0]
NaT == [k |-> "NaT", m |-> 0, d |-> 0]

Row(date, sales, revenue, product) ==
    [Date |-> date, Sales |-> sales, Revenue |-> revenue, Product |-> product]

RowPool ==
    { Row(DateCell(1, 5), 10, 100, "A"),
      Row(DateCell(1, 12), 20, 200, "B"),
      Row(DateCell(2, 1), 5, 50, "A"),
      Row(DateCell(3, 3), 5, 50, "C"),
      Row(DateCell(2, 20), 0, 0, "C"),
      Row(BlankCell, 5, 50, "B") }

RECURSIVE SeqsUpTo(_, _)
\* the sequences over S of length at most n
SeqsUpTo(S, n) ==
    IF n = 0 THEN {<<>>}
    ELSE LET shorter == SeqsUpTo(S, n - 1)
         IN  shorter \cup {Append(t, x) : t \in {u \in shorter : Len(u) = n - 1}, x \in S}

NumericFrame(rows) ==
    [columns |-> Range(required_columns),
     dtypes  |-> [Sales |-> "int64", Revenue |-> "int64"],
     rows    |-> rows]

\* tables of up to MaxRows rows of the pool
PoolFrames == {NumericFrame(rows) : rows \in SeqsUpTo(RowPool, MaxRows)}

\* tables with one January row per product, for 1..MaxProducts products
ProductFrames ==
    UNION { { NumericFrame([i \in 1..n |->
                  Row(DateCell(1, i), sales[i], 10 * sales[i], SortedProductKeys[i])]) :
              sales \in [1..n -> {1, 2, 3}] } : n \in 1..MaxProducts }

\* Date columns that do or do not convert
SchemaRows ==
    { <<Row(DateCell(1, 5), 10, 100, "A")>>,
      <<Row(DateCell(1, 5), 10, 100, "A"), Row(TextCell, 5, 50, "B")>>,
      <<Row(BoolCell, 10, 100, "A"), Row(TextCell, 5, 50, "B")>> }

\* tables with any subset of the required columns, an extra column or not, and
\* Sales / Revenue columns read as numbers or as objects
SchemaFrames ==
    { [columns |-> cols, dtypes |-> [Sales |-> ds, Revenue |-> dr], rows |-> rows] :
        cols \in SUBSET (Range(required_columns) \cup {"Region"}),
        ds \in {"int64", "object"}, dr \in {"float64", "object"},
        rows \in SchemaRows }

Undecodable == [decodable |-> FALSE]

Uploads ==
    {Undecodable} \cup
    {[decodable |-> TRUE, sheet |-> f] : f \in PoolFrames \cup ProductFrames \cup SchemaFrames}

-----------------------------------------------------------------------------
(* The DataFrame operations the handler uses *)

\* request.form.get(key, default)
form_get(form, key, default) == IF key \in DOMAIN form THEN form[key] ELSE default

missing_columns_first(frame) ==
    LET all == SelectSeq(required_columns, LAMBDA c : c \notin frame.columns)
    IN  IF all = <<>> THEN <<>> ELSE <<all[1]>>

\* [col for col in required_columns if col not in df.columns]
missing_columns(frame) == SelectSeq(required_columns, LAMBDA c : c \notin frame.columns)

\* pd.api.types.is_numeric_dtype
is_numeric_dtype(dtype) == dtype \in {"int64", "float64"}

\* pd.to_datetime raises on the first cell it cannot convert: ValueError for a
\* text that is no date, TypeError for a boolean
to_datetime_error(rows) ==
    LET bad == {i \in 1..Len(rows) : rows[i].Date.k \in {"text", "bool"}}
    IN  IF bad = {} THEN "none"
        ELSE LET i == CHOOSE j \in bad : \A l \in bad : j <= l
             IN  IF rows[i].Date.k = "text" THEN "ValueError" ELSE "TypeError"

\* pd.to_datetime on a column that converts: blank cells become NaT
to_datetime(rows) ==
    [i \in 1..Len(rows) |->
        [rows[i] EXCEPT !.Date = IF rows[i].Date.k = "blank" THEN NaT ELSE rows[i].Date]]

\* .dt.strftime('%b'): NaN for NaT
strftime_b(date) == IF date.k = "NaT" THEN "NaN" ELSE MonthAbbr[date.m]

\* [m.strip() for m in specific_months.split(',')]
month_list(specific_months) ==
    LET parts == split(specific_months, ",")
    IN  [i \in 1..Len(parts) |-> strip(parts[i])]

\* Series.isin: NaN is in no list of strings
isin(abbr, list) == abbr # "NaN" /\ \E i \in 1..Len(list) : list[i] = <<abbr>>

filter_months_none(rows, list) == rows

\* df[df['Date'].dt.strftime('%b').isin(month_list)]
filter_months(rows, list) == SelectSeq(rows, LAMBDA r : isin(strftime_b(r.Date), list))

\* the grouping key of a row: its month abbreviation for
\* groupby(recent_data['Date'].dt.strftime('%b')), its label for groupby('Product')
KeyOf(r, by) == IF by = "Date" THEN strftime_b(r.Date) ELSE r.Product

\* the group keys in sorted order
SortedKeys(by) == IF by = "Date" THEN SortedMonthKeys ELSE SortedProductKeys

\* Series.sum of the Sales of the rows whose key is k
GroupSales(rows, by, k) ==
    SumSeq([i \in 1..Len(rows) |-> IF KeyOf(rows[i], by) = k THEN rows[i].Sales ELSE 0])

\* the keys of groupby(...): each distinct key once, in sorted order, NaN dropped
groupby_keys(rows, by) ==
    SelectSeq(SortedKeys(by), LAMBDA k : \E i \in 1..Len(rows) : KeyOf(rows[i], by) = k)

\* groupby(key)['Sales'].sum().reset_index(): one row per key, indexed 0, 1, ...
groupby_sum(rows, by) ==
    LET keys == groupby_keys(rows, by)
    IN  [i \in 1..Len(keys) |->
            [index |-> i - 1, key |-> keys[i], Sales |-> GroupSales(rows, by, keys[i])]]

-----------------------------------------------------------------------------
(* The aggregations *)

Min(a, b) == IF a < b THEN a ELSE b

SumSales(rows) == SumSeq([i \in 1..Len(rows) |-> rows[i].Sales])
SumRevenue(rows) == SumSeq([i \in 1..Len(rows) |-> rows[i].Revenue])

RemoveAt(s, i) == SubSeq(s, 1, i - 1) \o SubSeq(s, i + 1, Len(s))

RECURSIVE sort_values_ascending(_, _)
sort_values_ascending(frame, stable) ==
    IF frame = <<>> THEN <<>>
    ELSE LET i == CHOOSE k \in 1..Len(frame) :
                      \A j \in 1..Len(frame) :
                          \/ frame[j].Sales > frame[k].Sales
                          \/ frame[j].Sales = frame[k].Sales /\ j >= k
         IN  <<frame[i]>> \o sort_values_ascending(RemoveAt(frame, i), stable)

RECURSIVE sort_values(_, _)
\* .sort_values('Sales', ascending=False).  Rows of equal Sales come out in the
\* order the sort leaves them: the frame's order when it is stable, and (as the
\* other outcome modelled) the opposite order when it is not.
sort_values(frame, stable) ==
    IF frame = <<>> THEN <<>>
    ELSE LET i == CHOOSE k \in 1..Len(frame) :
                      \A j \in 1..Len(frame) :
                          \/ frame[j].Sales < frame[k].Sales
                          \/ /\ frame[j].Sales = frame[k].Sales
                             /\ IF stable THEN j >= k ELSE j <= k
         IN  <<frame[i]>> \o sort_values(RemoveAt(frame, i), stable)

head_all(frame, n) == frame

\* .head(n)
head(frame, n) == SubSeq(frame, 1, Min(n, Len(frame)))

bar_chart_data_per_row(rows) ==
    [i \in 1..Len(rows) |->
        [month |-> strftime_b(rows[i].Date), sales |-> rows[i].Sales,
         color |-> bar_colors[((i - 1) % Len(bar_colors)) + 1]]]

\* groupby(month).agg({'Sales': 'sum'}), then
\* bar_colors[i % len(bar_colors)] for i in range(len(bar_chart_data))
bar_chart_data(rows) ==
    LET g == groupby_sum(rows, "Date")
    IN  [i \in 1..Len(g) |->
            [month |-> g[i].key, sales |-> g[i].Sales,
             color |-> bar_colors[((i - 1) % Len(bar_colors)) + 1]]]

\* round(row['Sales'] / total_sales * 100, 1) if total_sales > 0 else 0
pie_value(part, total) == IF total > 0 THEN round1(part, total) ELSE 0

\* the pie entries: i of "for i, row in pie_chart_data.iterrows()" is the index
\* label the row got from reset_index(), which sort_values() keeps
pie_chart_data(rows, stable) ==
    LET top == head(sort_values(groupby_sum(rows, "Product"), stable),
                    HeadSize)
        total_sales == SumSales(rows)
    IN  [i \in 1..Len(top) |->
            [name  |-> top[i].key,
             value |-> pie_value(top[i].Sales, total_sales),
             color |-> colors[(top[i].index % Len(colors)) + 1]]]

\* the three summary figures; value is the number the format string renders:
\* hundredths for ',.2f', units for ',.0f'
summary_stats(rows) ==
    LET total_revenue == SumRevenue(rows)
        total_sales_sum == SumSales(rows)
        count == Len(rows)
        avg_sales == IF count > 0 THEN RoundHalfEven(total_sales_sum * 100, count) ELSE 0
    IN  << [label |-> "Total Revenue", format |-> "$,.2f", value |-> total_revenue * 100,
            trend |-> "neutral"],
           [label |-> "Total Sales", format |-> ",.0f", value |-> total_sales_sum,
            trend |-> "neutral"],
           [label |-> "Average Sales", format |-> ",.2f", value |-> avg_sales,
            trend |-> "neutral"] >>

\* Series.idxmax(): the key of the first row holding the maximum
idxmax(series) ==
    LET i == CHOOSE k \in 1..Len(series) :
                 /\ \A j \in 1..Len(series) : series[j].Sales <= series[k].Sales
                 /\ \A j \in 1..(k - 1) : series[j].Sales < series[k].Sales
    IN  series[i].key

\* idxmax() of an empty Series raises ValueError: every Date of the rows is NaT
insights_raise(rows) == groupby_keys(rows, "Date") = <<>>

insights(rows, pie) ==
    LET top_month == idxmax(groupby_sum(rows, "Date"))
        top_product == idxmax(groupby_sum(rows, "Product"))
    IN  [topPerformers |->
            << IF top_month # "N/A"
               THEN [text |-> "{top_month} showed the highest sales volume",
                     top_month |-> top_month]
               ELSE [text |-> "No data available"],
               IF pie # <<>>
               THEN [text |-> "{top_product} dominates with {value}% market share",
                     top_product |-> top_product, value |-> pie[1].value]
               ELSE [text |-> "No data available"],
               [text |-> "Review sales trends for optimization"] >>,
         recommendations |->
            << IF top_product # "N/A"
               THEN [text |-> "Focus marketing efforts on {top_product} success",
                     top_product |-> top_product]
               ELSE [text |-> "No top product identified"],
               [text |-> "Analyze underperforming products"],
               IF top_month # "N/A"
               THEN [text |-> "Consider expanding successful {top_month} strategies",
                     top_month |-> top_month]
               ELSE [text |-> "No top month identified"] >>]

-----------------------------------------------------------------------------
(* Responses *)

NoResponse == [status |-> 0, body |-> [error |-> <<>>]]

\* jsonify({'error': message}), status
json_error(message, status) == [status |-> status, body |-> [error |-> message]]

unexpected_failure_400(e) == json_error(<<"Failed to process file: ", e>>, 400)

\* the handler's "except Exception as e" clause
unexpected_failure(e) == json_error(<<"Failed to process file: ", e>>, 500)

analysis(rows, stable) ==
    LET pie == pie_chart_data(rows, stable)
    IN  [status |-> 200,
         body |-> [barChartData |-> bar_chart_data(rows),
                   pieChartData |-> pie,
                   summaryStats |-> summary_stats(rows),
                   insights |-> insights(rows, pie)]]

-----------------------------------------------------------------------------
(* The handler *)

NoFrame == [columns |-> {}, dtypes |-> [Sales |-> "object", Revenue |-> "object"],
            rows |-> <<>>]

\* specific_months = request.form.get('specificMonths', 'Jan')
specific_months == form_get(request.form, "specificMonths", DefaultMonths)

Index(seq, x) == CHOOSE i \in 1..Len(seq) : seq[i] = x

NextIn(order, stage) ==
    IF Index(order, stage) = Len(order) THEN "done" ELSE order[Index(order, stage) + 1]

StageAfterTypesFirst(stage) ==
    NextIn(<<"file_present", "filename", "extension", "decode", "numeric_types",
             "required_columns", "date_parsing", "month_filter", "emptiness_guard",
             "aggregation">>, stage)

\* the statement order of analyze_file: the stage that follows a stage that passed
StageAfter(stage) ==
    NextIn(<<"file_present", "filename", "extension", "decode", "required_columns",
             "numeric_types", "date_parsing", "month_filter", "emptiness_guard",
             "aggregation">>, stage)

\* a stage starts
Enter(stage) ==
    /\ pc = stage
    /\ stagesRun' = Append(stagesRun, stage)

\* a stage passes: the handler goes on to the next statement
Pass ==
    /\ pc' = StageAfter(pc)
    /\ UNCHANGED <<response, responses>>

\* a return statement (or the except clause) ends the request
Return(resp) ==
    /\ pc' = "done"
    /\ response' = resp
    /\ responses' = responses + 1

Init ==
    /\ pc = "file_present"
    /\ request \in Requests
    /\ df = NoFrame
    /\ recent_data = <<>>
    /\ response = NoResponse
    /\ stagesRun = <<>>
    /\ responses = 0

\* if 'file' not in request.files
CheckFilePresent ==
    /\ Enter("file_present")
    /\ IF request.files = NoFile
       THEN Return(json_error(<<"No file part in request">>, 400))
       ELSE Pass
    /\ UNCHANGED <<request, df, recent_data>>

\* if file.filename == ''
CheckFilename ==
    /\ Enter("filename")
    /\ IF request.files = <<>>
       THEN Return(json_error(<<"No file selected">>, 400))
       ELSE Pass
    /\ UNCHANGED <<request, df, recent_data>>

\* if not file.filename.endswith(('.xlsx', '.xls'))
CheckExtension ==
    /\ Enter("extension")
    /\ IF ~endswith_excel(request.files)
       THEN Return(json_error(
                <<"Invalid file format. Please upload an Excel file (.xlsx or .xls)">>, 400))
       ELSE Pass
    /\ UNCHANGED <<request, df, recent_data>>

\* df = pd.read_excel(file, engine='openpyxl'): the content of the upload is read
\* here; content that is no workbook raises, and the except clause answers
ReadExcel ==
    /\ Enter("decode")
    /\ \E upload \in Uploads :
          IF ~upload.decodable
          THEN /\ Return(unexpected_failure("File is not a zip file"))
               /\ UNCHANGED df
          ELSE /\ df' = upload.sheet
               /\ Pass
    /\ UNCHANGED <<request, recent_data>>

\* if missing_columns
ValidateColumns ==
    /\ Enter("required_columns")
    /\ IF missing_columns(df) # <<>>
       THEN Return(json_error(
                <<"Missing required columns: ">> \o join(missing_columns(df), ", "), 400))
       ELSE Pass
    /\ UNCHANGED <<request, df, recent_data>>

\* if not is_numeric_dtype(df['Sales']) or not is_numeric_dtype(df['Revenue'])
ValidateTypes ==
    /\ Enter("numeric_types")
    /\ IF ~is_numeric_dtype(df.dtypes.Sales) \/ ~is_numeric_dtype(df.dtypes.Revenue)
       THEN Return(json_error(
                <<"Sales and Revenue columns must contain numeric values">>, 400))
       ELSE Pass
    /\ UNCHANGED <<request, df, recent_data>>

\* df['Date'] = pd.to_datetime(df['Date']): a ValueError is answered by the inner
\* except clause, any other exception by the outer one
ProcessDate ==
    /\ Enter("date_parsing")
    /\ LET e == to_datetime_error(df.rows)
       IN  IF e = "ValueError"
           THEN /\ Return(json_error(<<"Invalid date format in Date column: ", e>>, 400))
                /\ UNCHANGED df
           ELSE IF e # "none"
           THEN /\ Return(unexpected_failure(e))
                /\ UNCHANGED df
           ELSE /\ df' = [df EXCEPT !.rows = to_datetime(df.rows)]
                /\ Pass
    /\ UNCHANGED <<request, recent_data>>

\* if specific_months: ... else: recent_data = df.copy().  The except clause around
\* the filter has nothing to catch: after to_datetime the Date column holds dates
\* or NaT, and isin takes any list of strings.
FilterMonths ==
    /\ Enter("month_filter")
    /\ IF specific_months # <<>>
       THEN /\ recent_data' = filter_months(df.rows, month_list(specific_months))
            /\ IF recent_data' = <<>>
               THEN Return(json_error(
                        <<"No data found for specified months: ">> \o specific_months, 400))
               ELSE Pass
       ELSE /\ recent_data' = df.rows
            /\ Pass
    /\ UNCHANGED <<request, df>>

\* if recent_data.empty
CheckEmpty ==
    /\ Enter("emptiness_guard")
    /\ IF recent_data = <<>>
       THEN Return(json_error(<<"No data available after applying product filter">>, 400))
       ELSE Pass
    /\ UNCHANGED <<request, df, recent_data>>

\* the charts, the summary, the insights and the final jsonify(...)
Aggregate ==
    /\ Enter("aggregation")
    /\ IF insights_raise(recent_data)
       THEN Return(unexpected_failure("attempt to get argmax of an empty sequence"))
       ELSE \E stable \in BOOLEAN : Return(analysis(recent_data, stable))
    /\ UNCHANGED <<request, df, recent_data>>

Next ==
    \/ CheckFilePresent
    \/ CheckFilename
    \/ CheckExtension
    \/ ReadExcel
    \/ ValidateColumns
    \/ ValidateTypes
    \/ ProcessDate
    \/ FilterMonths
    \/ CheckEmpty
    \/ Aggregate

Spec == Init /\ [][Next]_vars

-----------------------------------------------------------------------------
(* Properties *)

Done == pc = "done"
Success == response.status = 200
Last(seq) == seq[Len(seq)]
Ran(stage) == stage \in Range(stagesRun)
ErrorHead == IF response.status \in {400, 500} THEN response.body.error[1] ELSE "<none>"

PieValues(pie) == [i \in 1..Len(pie) |-> pie[i].value]
PieNames(pie) == [i \in 1..Len(pie) |-> pie[i].name]

\* summed Sales of product p over the post-filter rows
ProductTotal(p) ==
    SumSeq([i \in 1..Len(recent_data) |->
               IF recent_data[i].Product = p THEN recent_data[i].Sales ELSE 0])

\* the month abbreviations of the post-filter rows that have a date
PostFilterMonths ==
    {MonthAbbr[recent_data[i].Date.m] :
        i \in {j \in 1..Len(recent_data) : recent_data[j].Date.k = "date"}}

\* C1 as stated: on a success response the pie percentages sum to at most 100
\* (1000 tenths).
C1_SumAtMost100 ==
    Success => SumSeq(PieValues(response.body.pieChartData)) <= 1000

\* C1 amended: on a success response every pie percentage lies in [0, 100] and
\* the percentages sum to at most 100 + 0.05 per entry (rounding to one decimal
\* adds at most 0.05 to each), so the sum may exceed 100.
C1_SumWithinRounding ==
    Success =>
        LET v == PieValues(response.body.pieChartData)
        IN  /\ \A i \in 1..Len(v) : 0 <= v[i] /\ v[i] <= 1000
            /\ 2 * SumSeq(v) <= 2000 + Len(v)

C1_Witness ==
    Success /\ SumSeq(PieValues(response.body.pieChartData)) > 1000

\* the totals the claim C2 compares
Totals(resp) ==
    [bars  |-> [i \in 1..Len(resp.body.barChartData) |->
                   <<resp.body.barChartData[i].month, resp.body.barChartData[i].sales>>],
     stats |-> resp.body.summaryStats,
     pie   |-> PieValues(resp.body.pieChartData)]

\* "Feb,Jan,Mar": every month abbreviation present in the table, comma-separated
EveryMonthOf(rows) == join(groupby_keys(rows, "Date"), ",")

\* C2 as stated: a success response for specificMonths="" carries the same
\* totals as the analysis of the same table filtered by the list of every month
\* present in it.
C2_EmptyEqualsAllMonths ==
    (Success /\ specific_months = <<>>) =>
        Totals(response) =
            Totals(analysis(filter_months(df.rows, month_list(EveryMonthOf(df.rows))), TRUE))

C3Rows ==
    << Row(DateCell(1, 5), 10, 100, "A"),
       Row(DateCell(1, 12), 20, 200, "B"),
       Row(DateCell(2, 1), 5, 50, "A") >>

C3Case == Done /\ Ran("month_filter") /\ df.rows = C3Rows /\ specific_months = <<"Jan">>

\* C3 as stated: for the three-row table and specificMonths="Jan" the bars are
\* exactly [Jan 30 #3B82F6], the pie lists A 33.3 then B 66.7, and
\* topPerformers[0] mentions Jan.
C3_ScenarioAsStated ==
    C3Case =>
        /\ Success
        /\ response.body.barChartData =
               <<[month |-> "Jan", sales |-> 30, color |-> "#3B82F6"]>>
        /\ PieNames(response.body.pieChartData) = <<"A", "B">>
        /\ PieValues(response.body.pieChartData) = <<333, 667>>
        /\ response.body.insights.topPerformers[1].top_month = "Jan"

\* C3 amended: as stated, except that the pie lists B 66.7 first and A 33.3
\* second (descending summed Sales).
C3_ScenarioSorted ==
    C3Case =>
        /\ Success
        /\ response.body.barChartData =
               <<[month |-> "Jan", sales |-> 30, color |-> "#3B82F6"]>>
        /\ PieNames(response.body.pieChartData) = <<"B", "A">>
        /\ PieValues(response.body.pieChartData) = <<667, 333>>
        /\ response.body.insights.topPerformers[1].top_month = "Jan"

C3_Witness == C3Case /\ Success /\ Len(response.body.pieChartData) = 2

DecodeFailed == Done /\ Last(stagesRun) = "decode"

\* C4 as stated: an upload that cannot be decoded is answered with status 400.
C4_DecodeFailureIs400 == DecodeFailed => response.status = 400

\* C4 amended: an upload that cannot be decoded is answered by the catch-all
\* clause with status 500 and the "Failed to process file" message; every error
\* returned by a validation stage itself has status 400.
C4_DecodeFailureIs500 ==
    /\ DecodeFailed =>
           response.status = 500 /\ ErrorHead = "Failed to process file: "
    /\ (Done /\ ~Success /\ ErrorHead # "Failed to process file: ") =>
           response.status = 400

C4_Witness == DecodeFailed /\ response.status = 500

RequiredMissing == Range(required_columns) \ df.columns

\* the column names an error message lists after its first unit
ListedColumns == {response.body.error[i] : i \in 2..Len(response.body.error)} \ {", "}

\* C5: when a non-empty set M of required columns is absent from the decoded
\* table, the response is 400 and its message lists exactly the names in M, each
\* once, whatever the rest of the table holds.
C5_MissingColumnsListed ==
    (Done /\ Ran("required_columns") /\ RequiredMissing # {}) =>
        /\ response.status = 400
        /\ ErrorHead = "Missing required columns: "
        /\ ListedColumns = RequiredMissing
        /\ Len(response.body.error) = 2 * Cardinality(RequiredMissing)

C5_Witness ==
    /\ Done /\ Ran("required_columns")
    /\ RequiredMissing = {"Sales", "Product"}
    /\ response.status = 400
    /\ df.dtypes.Revenue = "object"

\* C6: on a success response the months of barChartData are exactly the distinct
\* month abbreviations of the post-filter rows, each once.
C6_BarMonths ==
    Success =>
        LET bars == response.body.barChartData
        IN  /\ {bars[i].month : i \in 1..Len(bars)} = PostFilterMonths
            /\ Len(bars) = Cardinality(PostFilterMonths)

C6_Witness ==
    /\ Success
    /\ Len(response.body.barChartData) = 2
    /\ Len(recent_data) = 3

\* C7: on a success response the pie has at most 5 entries, in descending order
\* of summed Sales; each entry is one product with its own share, and every
\* product left out sums to no more than every product listed.
C7_TopFive ==
    Success =>
        LET pie == response.body.pieChartData
            listed == {pie[i].name : i \in 1..Len(pie)}
            products == {recent_data[i].Product : i \in 1..Len(recent_data)}
        IN  /\ Len(pie) <= 5
            /\ Cardinality(listed) = Len(pie)
            /\ listed \subseteq products
            /\ \A i \in 1..(Len(pie) - 1) :
                   ProductTotal(pie[i].name) >= ProductTotal(pie[i + 1].name)
            /\ \A p \in products \ listed : \A q \in listed :
                   ProductTotal(p) <= ProductTotal(q)
            /\ \A i \in 1..Len(pie) :
                   pie[i].value = pie_value(ProductTotal(pie[i].name), SumSales(recent_data))
            /\ Len(pie) = Min(5, Cardinality(products))

C7_Witness ==
    /\ Success
    /\ Cardinality({recent_data[i].Product : i \in 1..Len(recent_data)}) > 5
    /\ Len(response.body.pieChartData) = 5

\* some row's month abbreviation equals one of the trimmed tokens
SomeRowMatches ==
    \E i \in 1..Len(df.rows) : \E t \in Range(month_list(specific_months)) :
        df.rows[i].Date.k = "date" /\ t = <<MonthAbbr[df.rows[i].Date.m]>>

\* C8: once the month filter runs with a non-empty specificMonths, the response
\* is 400 naming the requested months, with no aggregation, exactly when no row
\* matches a token; a list with a matching token succeeds whatever else it holds.
C8_NoMatchIs400 ==
    (Done /\ Ran("month_filter") /\ specific_months # <<>>) =>
        IF SomeRowMatches
        THEN Success
        ELSE /\ response = json_error(
                    <<"No data found for specified months: ">> \o specific_months, 400)
             /\ ~Ran("aggregation")

C8_Witness ==
    /\ Done /\ Ran("month_filter")
    /\ specific_months = <<"Dec">>
    /\ Len(df.rows) = 2
    /\ response.status = 400
    /\ response.body.error = <<"No data found for specified months: ", "Dec">>

\* the summed Sales of the products of the post-filter rows are pairwise different
NoTies ==
    \A i, j \in 1..Len(recent_data) :
        recent_data[i].Product # recent_data[j].Product =>
            ProductTotal(recent_data[i].Product) # ProductTotal(recent_data[j].Product)

\* C9 as stated: the pie entry at output position i (0-based) has color
\* colors[i mod 5], so the colors of the entries are pairwise distinct.  Taken on
\* the uploads whose product sums are pairwise different, where the order of the
\* pie does not depend on how the sort treats equal sums.
C9_ColorsByPosition ==
    (Success /\ NoTies) =>
        LET pie == response.body.pieChartData
        IN  /\ \A i \in 1..Len(pie) : pie[i].color = colors[((i - 1) % 5) + 1]
            /\ \A i, j \in 1..Len(pie) : i # j => pie[i].color # pie[j].color

ClaimedOrder ==
    <<"file_present", "filename", "extension", "decode", "required_columns",
      "numeric_types", "date_parsing", "month_filter", "emptiness_guard", "aggregation">>

\* the stage an error message belongs to
StageOfError(message) ==
    CASE message = "No file part in request" -> {"file_present"}
      [] message = "No file selected" -> {"filename"}
      [] message = "Invalid file format. Please upload an Excel file (.xlsx or .xls)" ->
             {"extension"}
      [] message = "Missing required columns: " -> {"required_columns"}
      [] message = "Sales and Revenue columns must contain numeric values" -> {"numeric_types"}
      [] message = "Invalid date format in Date column: " -> {"date_parsing"}
      [] message = "No data found for specified months: " -> {"month_filter"}
      [] message = "No data available after applying product filter" -> {"emptiness_guard"}
      [] message = "Failed to process file: " -> {"decode", "date_parsing", "aggregation"}
      [] OTHER -> {}

\* C10: the stages run in the fixed order, without gaps; the request ends with
\* exactly one response, which is the error of the last stage run (so nothing
\* runs after a failure) or the result of the aggregation; a table missing a
\* required column is reported as such even when its Sales / Revenue columns are
\* not numeric or its dates do not parse.
C10_StageOrder ==
    /\ Len(stagesRun) <= Len(ClaimedOrder)
    /\ stagesRun = SubSeq(ClaimedOrder, 1, Len(stagesRun))
    /\ responses = (IF Done THEN 1 ELSE 0)
    /\ (response = NoResponse) <=> ~Done
    /\ ~Done => pc = ClaimedOrder[Len(stagesRun) + 1]
    /\ Done =>
          IF Success THEN Last(stagesRun) = "aggregation"
          ELSE Last(stagesRun) \in StageOfError(ErrorHead)
    /\ (Done /\ Ran("required_columns") /\ RequiredMissing # {}) =>
          ErrorHead = "Missing required columns: "

C10_Witness ==
    /\ Done
    /\ RequiredMissing # {}
    /\ df.dtypes.Sales = "object"
    /\ to_datetime_error(df.rows) # "none"
    /\ ErrorHead = "Missing required columns: "

====
